---- MODULE Spec2Model ----
(***************************************************************************)
(* Model of the graphrag repository: the full indexer (indexer.py), the    *)
(* file watcher (services/file_watcher.py) and the graph writes of the     *)
(* knowledge graph service (services/knowledge_graph.py) against one       *)
(* Neo4j store.                                                            *)
(*                                                                         *)
(* A path is the tuple of its parts (pathlib's Path.parts).  A file is a   *)
(* record of its frontmatter tag field, its body as a sequence of tokens   *)
(* and its size in bytes.  The store keeps, per label and per relationship *)
(* type, how many nodes (edges) carry a given key, so that a duplicate is  *)
(* a count above one.                                                      *)
(***************************************************************************)
EXTENDS Integers, Sequences, FiniteSets, TLC

\* ------------------------------------------------------------------ bounds
MaxTime == 2
MaxOps == 2
MaxQueue == 1
NumThreads == 3
MaxDeliveries == 3
MaxHandlers == 2
MaxBacklog == 2
NumWriters == 2
MaxExchanges == 24

\* ------------------------------------------------------- program constants
debounce_delay == 2
MAX_NOTE_SIZE == 100000
\* chat_mode: the length above which the history is cut, and the length it
\* is cut to
HISTORY_LIMIT == 20
HISTORY_KEEP == 10

\* ------------------------------------------------------------- file system
VaultRoot == <<"/", "vault">>
NotesDir == <<"/", "vault", "notes">>
Dirs == {VaultRoot, NotesDir}
FileA == <<"/", "vault", "notes", "a.md">>
FileB == <<"/", "vault", "notes", "b.md">>
NotePaths == {FileA, FileB}

\* the vault path as index_vault is given it: absolute, or relative to the
\* working directory /
RelativeRoot == <<"vault">>
Vaults == {VaultRoot, RelativeRoot}

\* the path of p as the walk that started at vault names it (root / name)
Seen(vault, p) == SubSeq(p, Len(VaultRoot) - Len(vault) + 1, Len(p))

\* paths that only the watcher hears of: a note in the Meta folder and an
\* attachment; neither is on disk any more when an event for it is handled
MetaNote == <<"/", "vault", "OMeta", "template.md">>
Attachment == <<"/", "vault", "notes", "img.png">>
EventPaths == NotePaths \cup {MetaNote, Attachment}

\* files that tell the file filters apart: a note with the long extension,
\* a hidden note and a note inside .git
LongExt == <<"/", "vault", "notes", "c.markdown">>
HiddenNote == <<"/", "vault", "notes", ".draft.md">>
GitNote == <<"/", "vault", ".git", "x.md">>
Candidates == {FileA, MetaNote, Attachment, LongExt, HiddenNote, GitNote}

Absent == [kind |-> "absent"]
IsAbsent(f) == f.kind = "absent"
FileAt(disk, p) == IF p \in DOMAIN disk THEN disk[p] ELSE Absent

Tok(k, v, w, n) == [k |-> k, v |-> v, w |-> w, n |-> n]

\* tags {a, b}: a from the frontmatter list, b inline; links to b
ContentAB ==
    [kind |-> "file", size |-> 40,
     fm |-> [form |-> "list", vals |-> {"a"}],
     body |-> << Tok("header", "Intro", "", 1), Tok("tag", "b", "", 0),
                 Tok("ilink", "b", "", 0) >>]

\* tags {b, c}: both inline; an aliased link and an external link
ContentBC ==
    [kind |-> "file", size |-> 50,
     fm |-> [form |-> "none", vals |-> {}],
     body |-> << Tok("tag", "b", "", 0), Tok("tag", "c", "", 0),
                 Tok("ilink", "b", "see", 0),
                 Tok("elink", "site", "http://x", 0) >>]

Contents == {ContentAB, ContentBC}

\* "# Intro\nSee [[b]] and #topic."
ContentIntro ==
    [kind |-> "file", size |-> 30,
     fm |-> [form |-> "none", vals |-> {}],
     body |-> << Tok("header", "Intro", "", 1), Tok("ilink", "b", "", 0),
                 Tok("tag", "topic", "", 0) >>]

\* "# Start\nNothing here."
ContentStart ==
    [kind |-> "file", size |-> 22,
     fm |-> [form |-> "none", vals |-> {}],
     body |-> << Tok("header", "Start", "", 1) >>]

\* a file of zero bytes
ContentEmpty ==
    [kind |-> "file", size |-> 0,
     fm |-> [form |-> "none", vals |-> {}], body |-> << >>]

\* a file one byte above Config.MAX_NOTE_SIZE
ContentBig ==
    [kind |-> "file", size |-> MAX_NOTE_SIZE + 1,
     fm |-> [form |-> "none", vals |-> {}],
     body |-> << Tok("tag", "big", "", 0) >>]

\* a text that names a person ("Ada Lovelace", two capitalised words) and
\* has no tag, link or header
ContentPerson ==
    [kind |-> "file", size |-> 25,
     fm |-> [form |-> "none", vals |-> {}],
     body |-> << Tok("person", "Ada Lovelace", "", 0) >>]

IndexContents ==
    Contents \cup {ContentIntro, ContentStart, ContentEmpty, ContentBig}

Parent(p) == SubSeq(p, 1, Len(p) - 1)
Name(p) == p[Len(p)]

\* file names of the model and their suffix / hidden flag
Suffix(name) ==
    IF name \in {"a.md", "b.md", "template.md", "x.md", ".draft.md"} THEN ".md"
    ELSE IF name = "c.markdown" THEN ".markdown"
    ELSE IF name = "img.png" THEN ".png"
    ELSE ""
\* file_path.name.startswith('.')
Hidden(name) == name \in {".draft.md"}

\* ------------------------------------------------------------------ bags
Cnt(b, k) == IF k \in DOMAIN b THEN b[k] ELSE 0
EmptyBag == [k \in {} |-> 0]
\* CREATE: always one more node
CreateNode(b, k) ==
    IF k \in DOMAIN b THEN [b EXCEPT ![k] = @ + 1] ELSE b @@ (k :> 1)
\* MERGE (x:Label {key}): create the node only when no node matches
MergeNode(b, k) == IF k \in DOMAIN b THEN b ELSE b @@ (k :> 1)
\* MATCH (a) MATCH (b) MERGE (a)-[:R]->(b): one edge per matched pair
MergeEdge(e, k, na, nb) ==
    IF na * nb = 0 THEN e
    ELSE IF Cnt(e, k) >= na * nb THEN e
    ELSE [x \in (DOMAIN e) \cup {k} |-> IF x = k THEN na * nb ELSE e[x]]
Drop(b, K) == [k \in (DOMAIN b) \ K |-> b[k]]
Total(b) ==
    LET RECURSIVE Sum(_)
        Sum(S) == IF S = {} THEN 0
                  ELSE LET k == CHOOSE x \in S : TRUE
                       IN b[k] + Sum(S \ {k})
    IN Sum(DOMAIN b)

\* ------------------------------------------------------------- the store
EmptyGraph ==
    [notes |-> EmptyBag, props |-> EmptyBag, folders |-> EmptyBag,
     tags |-> EmptyBag, ilinks |-> EmptyBag, elinks |-> EmptyBag,
     headers |-> EmptyBag, entities |-> EmptyBag,
     contains_folder |-> EmptyBag, contains_note |-> EmptyBag,
     tagged_with |-> EmptyBag, links_to |-> EmptyBag,
     links_to_external |-> EmptyBag, has_header |-> EmptyBag,
     contains_entity |-> EmptyBag]

\* a Note node is identified by the property it was merged on and the path
IdxNote(p) == <<"path", p>>
KgNote(p) == <<"file_path", p>>
NotesAt(g, p) == Cnt(g.notes, IdxNote(p)) + Cnt(g.notes, KgNote(p))

\* ------------------------------------------------------------ note parser
TokVals(body, kind) ==
    {body[i].v : i \in {j \in 1..Len(body) : body[j].k = kind}}

\* indexer.extract_internal_links: [[target]] and [[target|display]]
extract_internal_links(c) == TokVals(c.body, "ilink")

\* indexer.extract_tags: frontmatter list or string, united with #tags
extract_tags(c) ==
    (IF c.fm.form \in {"list", "str"} THEN c.fm.vals ELSE {})
        \cup TokVals(c.body, "tag")

\* indexer.extract_headers
extract_headers(c) ==
    {<<c.body[i].v, c.body[i].n>> :
        i \in {j \in 1..Len(c.body) : c.body[j].k = "header"}}

\* indexer.extract_external_links
extract_external_links(c) ==
    {<<c.body[i].w, c.body[i].v>> :
        i \in {j \in 1..Len(c.body) : c.body[j].k = "elink"}}

\* the "" that calculate_note_hash returns when the file cannot be read
NoHash == << >>

\* the digest is never computed: the except branch is always taken
calculate_note_hash_Unreadable(c) == NoHash

\* indexer.calculate_note_hash: digest of the raw bytes
calculate_note_hash(c) == <<"sha256", c>>

CountTok(body, kind) ==
    Cardinality({j \in 1..Len(body) : body[j].k = kind})

\* ---------------------------------------------------------------- indexer
OBSIDIAN_EXTENSIONS == {".md", ".markdown"}

\* directory names of the model that contain one of SKIP_DIRS as a substring
should_skip_directory(dir_name) == dir_name \in {".git", ".obsidian"}

should_process_file(p) ==
    /\ ~Hidden(Name(p))
    /\ Suffix(Name(p)) \in OBSIDIAN_EXTENSIONS

FoldersAt(g, path) ==
    Total([k \in {x \in DOMAIN g.folders : x[1] = path} |-> g.folders[k]])

\* create_folder_nodes: one Folder per prefix of the path below parts[0],
\* linked to its parent from the second level on
RECURSIVE FolderChain(_, _, _)
FolderChain(g, parts, i) ==
    IF i > Len(parts) - 1 THEN g
    ELSE LET cur == SubSeq(parts, 1, i + 1)
             g1 == [g EXCEPT !.folders = MergeNode(@, <<cur, parts[i + 1]>>)]
             g2 == IF i > 1
                   THEN [g1 EXCEPT !.contains_folder =
                            MergeEdge(@, <<Parent(cur), cur>>,
                                      FoldersAt(g1, Parent(cur)),
                                      FoldersAt(g1, cur))]
                   ELSE g1
         IN FolderChain(g2, parts, i + 1)

create_folder_nodes(g, folder_path) == FolderChain(g, folder_path, 1)

IdxProps(p, c) ==
    [name |-> Name(p), content |-> c.body,
     hash |-> calculate_note_hash(c), size |-> c.size]

\* the same with CREATE in place of MERGE
IdxCreateNoteNode_Create(g, p, c) ==
    LET notes1 == CreateNode(g.notes, IdxNote(p))
    IN [g EXCEPT !.notes = notes1,
                 !.props = [k \in (DOMAIN g.props) \cup {IdxNote(p)} |->
                               IF k = IdxNote(p) THEN IdxProps(p, c)
                               ELSE g.props[k]]]

\* the same, but a note whose hash some Note already carries is not written
IdxCreateNoteNode_Dedup(g, p, c) ==
    IF \E k \in DOMAIN g.props :
          /\ k # IdxNote(p)
          /\ "hash" \in DOMAIN g.props[k]
          /\ g.props[k].hash = calculate_note_hash(c)
    THEN g
    ELSE [g EXCEPT !.notes = MergeNode(@, IdxNote(p)),
                   !.props = [k \in (DOMAIN g.props) \cup {IdxNote(p)} |->
                                 IF k = IdxNote(p) THEN IdxProps(p, c)
                                 ELSE g.props[k]]]

\* indexer.create_note_node: MERGE (n:Note {path}) SET ...
IdxCreateNoteNode(g, p, c) ==
    LET notes1 == MergeNode(g.notes, IdxNote(p))
    IN [g EXCEPT !.notes = notes1,
                 !.props = [k \in (DOMAIN g.props) \cup {IdxNote(p)} |->
                               IF k = IdxNote(p) THEN IdxProps(p, c)
                               ELSE g.props[k]]]

NodeField(kind) ==
    CASE kind = "ilink" -> "ilinks"
      [] kind = "tag" -> "tags"
      [] kind = "header" -> "headers"
      [] kind = "elink" -> "elinks"

EdgeField(kind) ==
    CASE kind = "ilink" -> "links_to"
      [] kind = "tag" -> "tagged_with"
      [] kind = "header" -> "has_header"
      [] kind = "elink" -> "links_to_external"

\* one pass of a "for x in ...: MERGE node; MATCH MATCH MERGE edge" loop
RECURSIVE LinkVocab(_, _, _, _)
LinkVocab(g, nk, kind, S) ==
    IF S = {} THEN g
    ELSE LET x == CHOOSE y \in S : TRUE
             nf == NodeField(kind)
             ef == EdgeField(kind)
             g1 == [g EXCEPT ![nf] = MergeNode(@, x)]
             g2 == [g1 EXCEPT ![ef] =
                       MergeEdge(@, <<nk, x>>, Cnt(g1.notes, nk), Cnt(g1[nf], x))]
         IN LinkVocab(g2, nk, kind, S \ {x})

\* _create_content_relationships: links, tags, headers, external links;
\* nothing is ever removed
create_content_relationships(g, p, c) ==
    LET nk == IdxNote(p)
        g1 == LinkVocab(g, nk, "ilink", extract_internal_links(c))
        g2 == LinkVocab(g1, nk, "tag", extract_tags(c))
        g3 == LinkVocab(g2, nk, "header", extract_headers(c))
    IN LinkVocab(g3, nk, "elink", extract_external_links(c))

\* the same with the Folder-CONTAINS-Note edge written by CREATE
create_note_relationships_Create(g, p, c) ==
    LET g1 == [g EXCEPT !.contains_note =
                  CreateNode(@, <<Parent(p), IdxNote(p)>>)]
    IN create_content_relationships(g1, p, c)

\* create_note_relationships: Folder-CONTAINS-Note, then the content edges
create_note_relationships(g, p, c) ==
    LET g1 == [g EXCEPT !.contains_note =
                  MergeEdge(@, <<Parent(p), IdxNote(p)>>,
                            FoldersAt(g, Parent(p)), Cnt(g.notes, IdxNote(p)))]
    IN create_content_relationships(g1, p, c)

ZeroStats ==
    [folders_processed |-> 0, notes_processed |-> 0, notes_skipped |-> 0,
     errors |-> 0, total_links |-> 0, total_tags |-> 0, total_headers |-> 0]

\* get_note_content: None when the file cannot be read or has no bytes
get_note_content(c, fail) ==
    IF fail = "read" \/ c.size = 0
    THEN [ok |-> FALSE]
    ELSE [ok |-> TRUE, content |-> c.body, frontmatter |-> c.fm]

\* what goes wrong for one file during a run: nothing, the read of the file,
\* the store call of create_note_node, or one of create_note_relationships
IndexFails == {"none", "read", "node", "rels"}

\* the same with notes_processed counted before the store calls are made
IndexFile_CountFirst(st, p, c, fail) ==
    IF ~should_process_file(p)
    THEN [st EXCEPT !.stats.notes_skipped = @ + 1]
    ELSE IF ~get_note_content(c, fail).ok
    THEN [st EXCEPT !.stats.notes_skipped = @ + 1]
    ELSE IF fail = "node"
    THEN [st EXCEPT !.stats.errors = @ + 1, !.stats.notes_processed = @ + 1]
    ELSE IF fail = "rels"
    THEN [g |-> IdxCreateNoteNode(st.g, p, c),
          stats |-> [st.stats EXCEPT !.errors = @ + 1,
                                     !.notes_processed = @ + 1]]
    ELSE [g |-> create_note_relationships(IdxCreateNoteNode(st.g, p, c), p, c),
          stats |-> [st.stats EXCEPT
                        !.notes_processed = @ + 1,
                        !.total_links = @ + CountTok(c.body, "ilink"),
                        !.total_tags = @ + Cardinality(extract_tags(c)),
                        !.total_headers = @ + CountTok(c.body, "header")]]

\* the body of the "for file_name in files" loop for one file
IndexFile(st, p, c, fail) ==
    IF ~should_process_file(p)
    THEN [st EXCEPT !.stats.notes_skipped = @ + 1]
    ELSE IF ~get_note_content(c, fail).ok
    THEN [st EXCEPT !.stats.notes_skipped = @ + 1]
    ELSE IF fail = "node"
    THEN [st EXCEPT !.stats.errors = @ + 1]
    ELSE IF fail = "rels"
    THEN [g |-> IdxCreateNoteNode(st.g, p, c),
          stats |-> [st.stats EXCEPT !.errors = @ + 1]]
    ELSE [g |-> create_note_relationships(IdxCreateNoteNode(st.g, p, c), p, c),
          stats |-> [st.stats EXCEPT
                        !.notes_processed = @ + 1,
                        !.total_links = @ + CountTok(c.body, "ilink"),
                        !.total_tags = @ + Cardinality(extract_tags(c)),
                        !.total_headers = @ + CountTok(c.body, "header")]]

\* the files of one directory, in the order os.walk lists them
RECURSIVE IndexFiles(_, _, _, _, _)
IndexFiles(st, files, disk, fail, vault) ==
    IF files = << >> THEN st
    ELSE LET p == Head(files)
         IN IndexFiles(IndexFile(st, Seen(vault, p), disk[p], fail[p]),
                       Tail(files), disk, fail, vault)

RECURSIVE FolderNodesFor(_, _, _)
FolderNodesFor(st, dirs, vault) ==
    IF dirs = {} THEN st
    ELSE LET d == CHOOSE x \in dirs : TRUE
         IN FolderNodesFor(
                [g |-> create_folder_nodes(st.g, Seen(vault, d)),
                 stats |-> [st.stats EXCEPT !.folders_processed = @ + 1]],
                dirs \ {d}, vault)

SubDirs(d) ==
    {x \in Dirs : Len(x) = Len(d) + 1 /\ Parent(x) = d
                  /\ ~should_skip_directory(Name(x))}

FilesIn(d, disk) == {p \in NotePaths : Parent(p) = d /\ ~IsAbsent(disk[p])}

SetToSeq(S) ==
    LET RECURSIVE Go(_)
        Go(T) == IF T = {} THEN << >>
                 ELSE LET x == CHOOSE y \in T : TRUE
                      IN <<x>> \o Go(T \ {x})
    IN Go(S)

\* the orders in which the file system may list the files
Orders == {<<FileA, FileB>>, <<FileB, FileA>>}

\* the os.walk loop, top-down: folder nodes of the sub-directories, the
\* files of the directory in listing order, then the sub-directories
RECURSIVE Walk(_, _, _, _, _, _)
Walk(st, todo, disk, fail, ord, vault) ==
    IF todo = << >> THEN st
    ELSE LET d == Head(todo)
             Listed(p) == p \in FilesIn(d, disk)
             st1 == FolderNodesFor(st, SubDirs(d), vault)
             st2 == IndexFiles(st1, SelectSeq(ord, Listed), disk, fail, vault)
         IN Walk(st2, SetToSeq(SubDirs(d)) \o Tail(todo), disk, fail, ord,
                 vault)

\* index_vault(vault_path): the folder nodes of Path(vault_path), then the
\* walk of the directory it names
index_vault(g, disk, fail, ord, vault) ==
    LET st0 == [g |-> create_folder_nodes(g, vault),
                stats |-> [ZeroStats EXCEPT !.folders_processed = 1]]
    IN Walk(st0, <<VaultRoot>>, disk, fail, ord, vault)

\* ------------------------------------------------ knowledge graph service
Entities == {"e1"}

\* file_watcher._extract_links: the whole text between [[ and ]] (the
\* display alias included) and the text of every [text](url)
WatcherLinks(c) ==
    {IF c.body[i].w = "" THEN <<c.body[i].v>>
                         ELSE <<c.body[i].v, "|", c.body[i].w>> :
        i \in {j \in 1..Len(c.body) : c.body[j].k = "ilink"}}
    \cup {<<c.body[i].v>> :
        i \in {j \in 1..Len(c.body) : c.body[j].k = "elink"}}

\* set(frontmatter.get('tags', [])): a list gives its items, a string its
\* characters (the tag names of the model are one character long)
WatcherTags(c) == IF c.fm.form = "none" THEN {} ELSE c.fm.vals

\* file_watcher._read_note_file: None for a missing or oversized file
read_note_file(p, disk) ==
    LET f == FileAt(disk, p)
    IN IF IsAbsent(f) THEN [ok |-> FALSE]
       ELSE IF f.size > MAX_NOTE_SIZE THEN [ok |-> FALSE]
       ELSE [ok |-> TRUE, file_path |-> p, content |-> f.body,
             tags |-> WatcherTags(f), links |-> WatcherLinks(f)]

KgProps(note, old) ==
    [content |-> note.content, tags |-> note.tags, links |-> note.links,
     content_embedding |-> old]

OldEmbedding(g, nk) ==
    IF nk \in DOMAIN g.props THEN g.props[nk].content_embedding ELSE <<>>

\* knowledge_graph.create_note_node: MERGE (n:Note {file_path}) SET ...
KgCreateNoteNode(g, note) ==
    LET nk == KgNote(note.file_path)
    IN [g EXCEPT !.notes = MergeNode(@, nk),
                 !.props = [k \in (DOMAIN g.props) \cup {nk} |->
                               IF k = nk THEN KgProps(note, OldEmbedding(g, nk))
                               ELSE g.props[k]]]

\* create_entity_node for every entity, then link_note_to_entities
RECURSIVE LinkEntities(_, _, _)
LinkEntities(g, nk, S) ==
    IF S = {} THEN g
    ELSE LET e == CHOOSE y \in S : TRUE
             g1 == [g EXCEPT !.entities = MergeNode(@, e)]
             g2 == [g1 EXCEPT !.contains_entity =
                       MergeEdge(@, <<nk, e>>, Cnt(g1.notes, nk),
                                 Cnt(g1.entities, e))]
         IN LinkEntities(g2, nk, S \ {e})

\* knowledge_graph.update_note_embeddings
update_note_embeddings(g, note) ==
    LET nk == KgNote(note.file_path)
    IN IF nk \in DOMAIN g.props
       THEN [g EXCEPT !.props[nk].content_embedding = <<"emb", note.content>>]
       ELSE g

EdgeFields ==
    {"tagged_with", "links_to", "links_to_external", "has_header",
     "contains_entity"}

\* a soft delete: MERGE the Note and mark it, in place of MATCH and DELETE
delete_note_Soft(g, p) ==
    LET nk == KgNote(p)
    IN [g EXCEPT !.notes = MergeNode(@, nk),
                 !.props = [k \in (DOMAIN g.props) \cup {nk} |->
                               IF k = nk THEN [deleted |-> TRUE]
                               ELSE g.props[k]]]

\* knowledge_graph.delete_note:
\* MATCH (n:Note {file_path}) OPTIONAL MATCH (n)-[r]-() DELETE r, n
delete_note(g, p) ==
    LET nk == KgNote(p)
    IN IF nk \notin DOMAIN g.notes THEN g
       ELSE [f \in DOMAIN g |->
               IF f \in {"notes", "props"} THEN Drop(g[f], {nk})
               ELSE IF f \in EdgeFields
               THEN Drop(g[f], {k \in DOMAIN g[f] : k[1] = nk})
               ELSE IF f = "contains_note"
               THEN Drop(g[f], {k \in DOMAIN g[f] : k[2] = nk})
               ELSE g[f]]

\* ------------------------------------------------------------ query engine
\* the Note nodes that pass "n.hash IS NOT NULL AND n.hash <> ''"
Hashed(g) ==
    {k \in DOMAIN g.notes :
        /\ k \in DOMAIN g.props
        /\ "hash" \in DOMAIN g.props[k]
        /\ g.props[k].hash # NoHash}

\* query.find_duplicate_notes: the notes grouped by hash, the groups of more
\* than one note; n.path is null for a node that was merged on file_path
find_duplicate_notes(g) ==
    LET Group(h) == {k \in Hashed(g) : g.props[k].hash = h}
        Size(h) == Total([k \in Group(h) |-> g.notes[k]])
    IN {[hash |-> h, note_paths |-> {k[2] : k \in Group(h)}, count |-> Size(h)] :
           h \in {x \in {g.props[k].hash : k \in Hashed(g)} : Size(x) > 1}}

\* ----------------------------------------------------------- file watcher
\* Config.IGNORE_PATTERNS, each pattern as the parts it spans ("OMeta" stands
\* for the Meta folder name, which starts with a non-ASCII circle)
IGNORE_PATTERNS == {<<"OMeta", "**">>, <<".git", "**">>, <<".obsidian", "**">>}

\* "pattern in str(file_path)", at the granularity of path parts
should_ignore(p) ==
    \E pat \in IGNORE_PATTERNS :
        \E i \in 1..Len(p) :
            /\ i + Len(pat) - 1 <= Len(p)
            /\ SubSeq(p, i, i + Len(pat) - 1) = pat

FailPoints == {"none", "note", "entity"}
\* what the outside world does during one dispatch: the entities the
\* detection call returns and the store call that raises, if any
Inputs ==
    {in \in [fail : FailPoints, det : SUBSET Entities, api : {"ok"}] :
        in.fail = "entity" => in.det # {}}

\* the same, and the dispatches during which the detection call fails or
\* times out
DetectInputs ==
    Inputs \cup [fail : {"none", "note"}, det : {{}}, api : {"error"}]

\* entity_detection._fallback_entity_detection: the names that the patterns
\* find in the text of the note
fallback_entity_detection(note) == TokVals(note.content, "person")

\* detect_entities with the except branch returning no entity at all
detect_entities_NoFallback(note, in) ==
    IF in.api = "error" THEN {} ELSE in.det

\* entity_detection.detect_entities: the entities of the response, or those
\* of the fallback when the call raises
detect_entities(note, in) ==
    IF in.api = "error" THEN fallback_entity_detection(note) ELSE in.det

\* _update_knowledge_graph: every store error is caught and logged
update_knowledge_graph(g, note, in) ==
    IF in.fail = "note" THEN g
    ELSE IF in.fail = "entity" /\ in.det # {}
    THEN KgCreateNoteNode(g, note)
    ELSE update_note_embeddings(
             LinkEntities(KgCreateNoteNode(g, note),
                          KgNote(note.file_path), in.det),
             note)

\* _process_note_update
process_note_update(g, p, disk, in) ==
    LET note == read_note_file(p, disk)
    IN IF ~note.ok THEN g
       ELSE update_knowledge_graph(
                g, note, [in EXCEPT !.det = detect_entities(note, in)])

\* _process_note_deletion: the tracking entry is removed only when the
\* store call did not raise
process_note_deletion(g, lm, p, in) ==
    IF in.fail = "none"
    THEN [g |-> delete_note(g, p), lm |-> Drop(lm, {p})]
    ELSE [g |-> g, lm |-> lm]

\* one debounce clock for all paths: any entry younger than the delay
DebounceHit_AnyPath(lm, p, t) ==
    \E k \in DOMAIN lm : t - lm[k] < debounce_delay

\* the debounce test of _handle_file_change: the entry of this path only
DebounceHit(lm, p, t) ==
    p \in DOMAIN lm /\ t - lm[p] < debounce_delay

\* _handle_file_change(file_path, event_type) at time t
handle_file_change(g, lm, p, type, t, disk, in) ==
    IF DebounceHit(lm, p, t)
    THEN [g |-> g, lm |-> lm, outcome |-> "debounced"]
    ELSE LET lm1 == [k \in (DOMAIN lm) \cup {p} |-> IF k = p THEN t ELSE lm[k]]
         IN IF type \in {"created", "modified"}
            THEN [g |-> process_note_update(g, p, disk, in), lm |-> lm1,
                  outcome |-> "update"]
            ELSE LET r == process_note_deletion(g, lm1, p, in)
                 IN [g |-> r.g, lm |-> r.lm, outcome |-> "deletion"]

\* ------------------------------------------------- initial graph build
\* what can go wrong with one file of build_initial_knowledge_graph: the read
\* raises, the entity detection raises, create_note_node raises, or
\* create_entity_node raises after the note node was written
BuildFails == {"none", "read", "detect", "note", "entity"}

\* core._get_all_markdown_files: rglob("*.md") without the ignored files,
\* sorted
get_all_markdown_files(disk) ==
    SelectSeq(<<FileA, FileB>>,
              LAMBDA p : ~IsAbsent(FileAt(disk, p)) /\ ~should_ignore(p))

\* core._add_note_to_knowledge_graph: the store error is logged and raised
\* again; what was written before it stays
add_note_to_knowledge_graph(g, note, f) ==
    IF f = "note" THEN [g |-> g, ok |-> FALSE]
    ELSE IF f = "entity" THEN [g |-> KgCreateNoteNode(g, note), ok |-> FALSE]
    ELSE [g |-> update_note_embeddings(
                    LinkEntities(KgCreateNoteNode(g, note),
                                 KgNote(note.file_path), Entities),
                    note),
          ok |-> TRUE]

\* one turn of the loop with processed_count incremented before the add
BuildFile_CountFirst(st, p, disk, f) ==
    LET note == read_note_file(p, disk)
    IN IF f = "read" \/ ~note.ok THEN st
       ELSE IF f = "detect" THEN st
       ELSE LET r == add_note_to_knowledge_graph(st.g, note, f)
            IN [g |-> r.g, n |-> st.n + 1]

\* one turn of the loop of build_initial_knowledge_graph: core._read_note_file
\* is the watcher's; processed_count is incremented after the add returned
BuildFile(st, p, disk, f) ==
    LET note == read_note_file(p, disk)
    IN IF f = "read" \/ ~note.ok THEN st
       ELSE IF f = "detect" THEN st
       ELSE LET r == add_note_to_knowledge_graph(st.g, note, f)
            IN [g |-> r.g, n |-> IF r.ok THEN st.n + 1 ELSE st.n]

RECURSIVE BuildFiles(_, _, _, _)
BuildFiles(st, files, disk, fail) ==
    IF files = << >> THEN st
    ELSE BuildFiles(BuildFile(st, Head(files), disk, fail[Head(files)]),
                    Tail(files), disk, fail)

\* core.build_initial_knowledge_graph: the statistics are read after the
\* loop, outside the per-file handler, so their failure is raised to the
\* caller
build_initial_knowledge_graph(g, disk, fail, statsFail) ==
    LET files == get_all_markdown_files(disk)
        st == BuildFiles([g |-> g, n |-> 0], files, disk, fail)
    IN IF files = << >>
       THEN [g |-> g,
             result |-> [status |-> "no_files", files_processed |-> 0,
                         total_files |-> 0]]
       ELSE [g |-> st.g,
             result |-> [status |-> IF statsFail THEN "raised" ELSE "success",
                         files_processed |-> IF statsFail THEN 0 ELSE st.n,
                         total_files |-> IF statsFail THEN 0 ELSE Len(files)]]

\* ------------------------------------------------------------------ state
VARIABLES
    fs,                \* the files of the vault: path -> file or Absent
    graph,             \* the Neo4j store
    stats,             \* what the last index_vault returned
    queue,             \* events emitted by the observer, not yet dispatched
    now,               \* time.time(), in seconds
    last_modified,     \* FileWatcherService.last_modified
    processing_files,  \* ObsidianFileHandler.processing_files
    is_watching,       \* FileWatcherService.is_watching
    observer,          \* the Observer thread: "new", "running" or "stopped"
    thr,               \* per delivering thread: position in the handler
    ops,               \* number of file operations (deliveries) so far
    last,              \* history: the operation that has just run, if any
    observed,          \* history: per path, the last event seen and the file then
    win,               \* history: per path, the current debounce window
    lossy,             \* history: a store call failed or an event was dropped
    handlers,          \* number of handlers scheduled on the observer
    built,             \* what the last build_initial_knowledge_graph returned
    conversation_history,  \* chat_mode's list of exchanges
    exchanges          \* history: number of exchanges answered so far

\* the state of a chat session, which no other operation touches
chat_vars == <<conversation_history, exchanges>>

vars ==
    <<fs, graph, stats, queue, now, last_modified, processing_files,
      is_watching, observer, thr, ops, last, observed, win, lossy, handlers,
      built, conversation_history, exchanges>>

Threads == 1..NumThreads
IdleThread == [pc |-> "idle", src |-> << >>, type |-> ""]

NoFail == [p \in NotePaths |-> "none"]

NoOp ==
    [op |-> "none", type |-> "", path |-> << >>, dest |-> << >>,
     outcome |-> "", clean |-> TRUE, early |-> FALSE, rerun |-> FALSE,
     fail |-> NoFail, root |-> VaultRoot, seq |-> -1, api |-> "ok"]

NoWindow == [start |-> -1, n |-> 0, calls |-> 0]

NotBuilt == [status |-> "none", files_processed |-> 0, total_files |-> 0]

Init ==
    /\ fs = [p \in NotePaths |-> IF p = FileA THEN ContentAB ELSE Absent]
    /\ graph = EmptyGraph
    /\ stats = ZeroStats
    /\ queue = << >>
    /\ now = 0
    /\ last_modified = EmptyBag
    /\ processing_files = {}
    /\ is_watching = FALSE
    /\ observer = "new"
    /\ thr = [i \in Threads |-> IdleThread]
    /\ ops = 0
    /\ last = NoOp
    /\ observed = [p \in NotePaths |-> [kind |-> "none", file |-> Absent]]
    /\ win = [p \in NotePaths |-> NoWindow]
    /\ lossy = FALSE
    /\ handlers = 0
    /\ built = NotBuilt
    /\ conversation_history = << >>
    /\ exchanges = 0

\* an event of the observer; at and seq are history: the time and the rank
\* (the number of file operations before it) at which it was observed
Event(type, src, dest) ==
    [type |-> type, src |-> src, dest |-> dest, at |-> now, seq |-> ops]

\* the observer emits an event only while it runs
Emit(e) ==
    IF is_watching
    THEN /\ Len(queue) < MaxQueue
         /\ queue' = Append(queue, e)
    ELSE queue' = queue

Observe(p, kind, file) ==
    observed' = IF is_watching
                THEN [observed EXCEPT ![p] = [kind |-> kind, file |-> file]]
                ELSE observed

\* ------------------------------------------------ the user edits the vault
WriteFile(p, c) ==
    /\ ops < MaxOps
    /\ fs' = [fs EXCEPT ![p] = c]
    /\ Emit(Event(IF IsAbsent(fs[p]) THEN "created" ELSE "modified", p, p))
    /\ Observe(p, "upsert", c)
    /\ ops' = ops + 1
    /\ last' = NoOp
    /\ UNCHANGED <<chat_vars, built, handlers, graph, stats, now, last_modified, processing_files,
                   is_watching, observer, thr, win, lossy>>

DeleteFile(p) ==
    /\ ops < MaxOps
    /\ ~IsAbsent(fs[p])
    /\ fs' = [fs EXCEPT ![p] = Absent]
    /\ Emit(Event("deleted", p, p))
    /\ Observe(p, "delete", Absent)
    /\ ops' = ops + 1
    /\ last' = NoOp
    /\ UNCHANGED <<chat_vars, built, handlers, graph, stats, now, last_modified, processing_files,
                   is_watching, observer, thr, win, lossy>>

MoveFile(p, q) ==
    /\ ops < MaxOps
    /\ p # q
    /\ ~IsAbsent(fs[p])
    /\ IsAbsent(fs[q])
    /\ fs' = [fs EXCEPT ![p] = Absent, ![q] = fs[p]]
    /\ Emit(Event("moved", p, q))
    /\ Observe(p, "delete", Absent)
    /\ ops' = ops + 1
    /\ last' = NoOp
    /\ UNCHANGED <<chat_vars, built, handlers, graph, stats, now, last_modified, processing_files,
                   is_watching, observer, thr, win, lossy>>

Tick ==
    /\ now < MaxTime
    /\ now' = now + 1
    /\ last' = NoOp
    /\ UNCHANGED <<chat_vars, built, handlers, fs, graph, stats, queue, last_modified, processing_files,
                   is_watching, observer, thr, ops, observed, win, lossy>>

\* ------------------------------------------------------------ full indexer
IndexVaultAt(vault, fail) ==
    /\ \E ord \in Orders :
          LET r == index_vault(graph, fs, fail, ord, vault)
          IN /\ graph' = r.g
             /\ stats' = r.stats
    /\ last' = [NoOp EXCEPT !.op = "index", !.clean = (fail = NoFail),
                            !.rerun = (last.op = "index" /\ last.clean),
                            !.fail = fail, !.root = vault]
    /\ lossy' = (lossy \/ fail # NoFail)
    /\ UNCHANGED <<chat_vars, built, handlers, fs, queue, now, last_modified, processing_files,
                   is_watching, observer, thr, ops, observed, win>>

\* the vault given by its absolute path
IndexVault(fail) == IndexVaultAt(VaultRoot, fail)

\* ------------------------------------------------- initial graph build
BuildInitial(fail, statsFail) ==
    /\ LET r == build_initial_knowledge_graph(graph, fs, fail, statsFail)
       IN /\ graph' = r.g
          /\ built' = r.result
    /\ last' = [NoOp EXCEPT !.op = "build",
                            !.clean = (fail = NoFail /\ ~statsFail),
                            !.fail = fail]
    /\ lossy' = (lossy \/ fail # NoFail)
    /\ UNCHANGED <<chat_vars, handlers, fs, stats, queue, now, last_modified,
                   processing_files, is_watching, observer, thr, ops,
                   observed, win>>

\* ----------------------------------------------------------- start / stop
\* start_watching without the early return of a running watcher
StartWatching_NoGuard ==
    /\ handlers < MaxHandlers
    /\ last' = [NoOp EXCEPT !.op = "start", !.rerun = is_watching]
    /\ handlers' = handlers + 1
    /\ IF observer = "new"
       THEN /\ observer' = "running"
            /\ is_watching' = TRUE
       ELSE UNCHANGED <<is_watching, observer>>
    /\ UNCHANGED <<chat_vars, built, fs, graph, stats, queue, now, last_modified,
                   processing_files, thr, ops, observed, win, lossy>>

\* start_watching: returns at once when already watching; otherwise a new
\* handler is created and scheduled, and the observer thread is started: a
\* Thread that was started before cannot be started again (observer.start()
\* raises, and is_watching stays False)
StartWatching ==
    /\ is_watching \/ handlers < MaxHandlers
    /\ last' = [NoOp EXCEPT !.op = "start", !.rerun = is_watching]
    /\ IF is_watching
       THEN UNCHANGED <<is_watching, observer, handlers>>
       ELSE /\ handlers' = handlers + 1
            /\ IF observer = "new"
               THEN /\ observer' = "running"
                    /\ is_watching' = TRUE
               ELSE UNCHANGED <<is_watching, observer>>
    /\ UNCHANGED <<chat_vars, built, fs, graph, stats, queue, now, last_modified,
                   processing_files, thr, ops, observed, win, lossy>>

\* a stop that marks the observer stopped but leaves its thread dispatching
StopWatching_NoJoin ==
    /\ is_watching
    /\ observer' = "stopped"
    /\ last' = [NoOp EXCEPT !.op = "stop"]
    /\ UNCHANGED <<chat_vars, built, handlers, fs, graph, stats, queue, now, last_modified,
                   processing_files, is_watching, thr, ops, observed, win,
                   lossy>>

\* stop_watching: observer.stop(), observer.join(); events still queued are
\* never dispatched
StopWatching ==
    /\ is_watching
    /\ \A i \in Threads : thr[i].pc = "idle"
    /\ observer' = "stopped"
    /\ is_watching' = FALSE
    /\ queue' = << >>
    /\ lossy' = (lossy \/ queue # << >>)
    /\ last' = [NoOp EXCEPT !.op = "stop"]
    /\ UNCHANGED <<chat_vars, built, handlers, fs, graph, stats, now, last_modified, processing_files,
                   thr, ops, observed, win>>

InputClean(in) == in.fail = "none"

\* history: the debounce window of path p, as the events arrive at the
\* callback: a created/modified event opens a window unless it falls less
\* than debounce_delay after the start of the current one
NextWindow(w, t, called) ==
    IF w.start < 0 \/ t >= w.start + debounce_delay
    THEN [start |-> t, n |-> 1, calls |-> IF called THEN 1 ELSE 0]
    ELSE [w EXCEPT !.n = @ + 1, !.calls = @ + IF called THEN 1 ELSE 0]

\* ------------------------------------------- dispatch, one event at a time
\* a dispatch whose failed callback leaves the path in processing_files
Dispatch_NoFinally(in) ==
    /\ is_watching
    /\ queue # << >>
    /\ \A i \in Threads : thr[i].pc = "idle"
    /\ queue' = Tail(queue)
    /\ LET e == Head(queue)
           p == e.src
           r == handle_file_change(graph, last_modified, p, e.type, now, fs, in)
           run == /\ Suffix(Name(p)) = ".md"
                  /\ ~should_ignore(p)
                  /\ p \notin processing_files
           what == IF Suffix(Name(p)) # ".md" THEN "filtered"
                   ELSE IF should_ignore(p) THEN "ignored"
                   ELSE IF p \in processing_files THEN "skipped"
                   ELSE r.outcome
       IN /\ graph' = IF run THEN r.g ELSE graph
          /\ last_modified' = IF run THEN r.lm ELSE last_modified
          /\ processing_files' =
                IF run /\ ~InputClean(in) THEN processing_files \cup {p}
                ELSE IF Suffix(Name(p)) = ".md" THEN processing_files \ {p}
                ELSE processing_files
          /\ last' = [op |-> "dispatch", type |-> e.type, path |-> p,
                      dest |-> e.dest, outcome |-> what,
                      clean |-> InputClean(in),
                      early |-> (now < e.at + debounce_delay),
                      rerun |-> FALSE, fail |-> NoFail,
                      root |-> VaultRoot, seq |-> e.seq, api |-> in.api]
          /\ win' = IF run /\ e.type \in {"created", "modified"}
                    THEN [win EXCEPT ![p] = NextWindow(@, now, what = "update")]
                    ELSE win
          /\ lossy' = (lossy \/ ~InputClean(in))
    /\ UNCHANGED <<chat_vars, built, handlers, fs, stats, now, is_watching, observer, thr, ops, observed>>

\* a dispatch that takes the event observed last, not the one observed first
Dispatch_Lifo(in) ==
    /\ is_watching
    /\ queue # << >>
    /\ \A i \in Threads : thr[i].pc = "idle"
    /\ queue' = SubSeq(queue, 1, Len(queue) - 1)
    /\ LET e == queue[Len(queue)]
           p == e.src
           r == handle_file_change(graph, last_modified, p, e.type, now, fs, in)
           run == /\ Suffix(Name(p)) = ".md"
                  /\ ~should_ignore(p)
                  /\ p \notin processing_files
           what == IF Suffix(Name(p)) # ".md" THEN "filtered"
                   ELSE IF should_ignore(p) THEN "ignored"
                   ELSE IF p \in processing_files THEN "skipped"
                   ELSE r.outcome
       IN /\ graph' = IF run THEN r.g ELSE graph
          /\ last_modified' = IF run THEN r.lm ELSE last_modified
          /\ processing_files' =
                IF Suffix(Name(p)) = ".md" THEN processing_files \ {p}
                ELSE processing_files
          /\ last' = [op |-> "dispatch", type |-> e.type, path |-> p,
                      dest |-> e.dest, outcome |-> what,
                      clean |-> InputClean(in),
                      early |-> (now < e.at + debounce_delay),
                      rerun |-> FALSE, fail |-> NoFail,
                      root |-> VaultRoot, seq |-> e.seq, api |-> in.api]
          /\ win' = IF run /\ e.type \in {"created", "modified"}
                    THEN [win EXCEPT ![p] = NextWindow(@, now, what = "update")]
                    ELSE win
          /\ lossy' = (lossy \/ ~InputClean(in))
    /\ UNCHANGED <<chat_vars, built, handlers, fs, stats, now, is_watching, observer, thr, ops, observed>>

\* on_created / on_modified / on_deleted / on_moved, _process_file_change and
\* the callback, run to completion by the observer thread
Dispatch(in) ==
    /\ is_watching
    /\ queue # << >>
    /\ \A i \in Threads : thr[i].pc = "idle"
    /\ queue' = Tail(queue)
    /\ LET e == Head(queue)
           p == e.src
           r == handle_file_change(graph, last_modified, p, e.type, now, fs, in)
           run == /\ Suffix(Name(p)) = ".md"
                  /\ ~should_ignore(p)
                  /\ p \notin processing_files
           what == IF Suffix(Name(p)) # ".md" THEN "filtered"
                   ELSE IF should_ignore(p) THEN "ignored"
                   ELSE IF p \in processing_files THEN "skipped"
                   ELSE r.outcome
       IN /\ graph' = IF run THEN r.g ELSE graph
          /\ last_modified' = IF run THEN r.lm ELSE last_modified
          /\ processing_files' =
                IF Suffix(Name(p)) = ".md" THEN processing_files \ {p}
                ELSE processing_files
          /\ last' = [op |-> "dispatch", type |-> e.type, path |-> p,
                      dest |-> e.dest, outcome |-> what,
                      clean |-> InputClean(in),
                      early |-> (now < e.at + debounce_delay),
                      rerun |-> FALSE, fail |-> NoFail,
                      root |-> VaultRoot, seq |-> e.seq, api |-> in.api]
          /\ win' = IF run /\ e.type \in {"created", "modified"}
                    THEN [win EXCEPT ![p] = NextWindow(@, now, what = "update")]
                    ELSE win
          /\ lossy' = (lossy \/ ~InputClean(in))
    /\ UNCHANGED <<chat_vars, built, handlers, fs, stats, now, is_watching, observer, thr, ops, observed>>

\* ------------------------------------------------------- specifications
FsStep ==
    \/ \E p \in NotePaths, c \in Contents : WriteFile(p, c)
    \/ \E p \in NotePaths : DeleteFile(p)
    \/ \E p \in NotePaths, q \in NotePaths : MoveFile(p, q)

\* the full indexer alone, on a vault that changes between runs
NextIndex ==
    \/ FsStep
    \/ \E fail \in [NotePaths -> {"none", "node", "rels"}] : IndexVault(fail)

SpecIndex == Init /\ [][NextIndex]_vars

\* the full indexer on any vault of the model: every file is absent or holds
\* one of IndexContents, and every file may fail in every way
InitVault ==
    /\ fs \in [NotePaths -> IndexContents \cup {Absent}]
    /\ graph = EmptyGraph
    /\ stats = ZeroStats
    /\ queue = << >>
    /\ now = 0
    /\ last_modified = EmptyBag
    /\ processing_files = {}
    /\ is_watching = FALSE
    /\ observer = "new"
    /\ thr = [i \in Threads |-> IdleThread]
    /\ ops = 0
    /\ last = NoOp
    /\ observed = [p \in NotePaths |-> [kind |-> "none", file |-> Absent]]
    /\ win = [p \in NotePaths |-> NoWindow]
    /\ lossy = FALSE
    /\ handlers = 0
    /\ built = NotBuilt
    /\ conversation_history = << >>
    /\ exchanges = 0

NextVault == \E fail \in [NotePaths -> IndexFails] : IndexVault(fail)

SpecVault == InitVault /\ [][NextVault]_vars

\* the full indexer on any vault of the model, named by either path
NextRoots == \E vault \in Vaults : IndexVaultAt(vault, NoFail)

SpecRoots == InitVault /\ [][NextRoots]_vars

\* the initial build on any vault of the model, every file failing in every
\* way
NextBuild ==
    \E fail \in [NotePaths -> BuildFails], statsFail \in BOOLEAN :
        BuildInitial(fail, statsFail)

SpecBuild == InitVault /\ [][NextBuild]_vars

\* the events a backlog may hold: any kind, on any note; a move names the
\* other note as its destination
BacklogEvents(n) ==
    {e \in [type : {"created", "modified", "deleted", "moved"},
            src : NotePaths, dest : NotePaths, at : {0}, seq : {n}] :
        (e.type = "moved") = (e.src # e.dest)}

Backlogs ==
    UNION {{q \in [1..n -> UNION {BacklogEvents(i) : i \in 1..n}] :
                \A i \in 1..n : q[i].seq = i} : n \in 0..MaxBacklog}

\* a running watcher with a backlog of events in the observer's queue
InitBacklog ==
    /\ fs \in {d \in [NotePaths -> Contents \cup {Absent}] :
                 /\ d[FileA] \in {ContentAB, Absent}
                 /\ d[FileB] \in {ContentBC, Absent}}
    /\ queue \in Backlogs
    /\ graph = EmptyGraph
    /\ stats = ZeroStats
    /\ now = 0
    /\ last_modified = EmptyBag
    /\ processing_files = {}
    /\ is_watching = TRUE
    /\ observer = "running"
    /\ thr = [i \in Threads |-> IdleThread]
    /\ ops = 0
    /\ last = NoOp
    /\ observed = [p \in NotePaths |-> [kind |-> "none", file |-> Absent]]
    /\ win = [p \in NotePaths |-> NoWindow]
    /\ lossy = FALSE
    /\ handlers = 1
    /\ built = NotBuilt
    /\ conversation_history = << >>
    /\ exchanges = 0

\* the observer thread works the backlog off while time passes
NextBacklog ==
    \/ Tick
    \/ \E in \in Inputs : Dispatch(in)

SpecBacklog == InitBacklog /\ [][NextBacklog]_vars

\* a running watcher with a backlog, on notes with and without a name that
\* the fallback detection finds
InitDetect ==
    /\ fs \in {d \in [NotePaths -> {ContentPerson, ContentAB, Absent}] :
                 d[FileA] # ContentAB /\ d[FileB] # ContentPerson}
    /\ queue \in Backlogs
    /\ graph = EmptyGraph
    /\ stats = ZeroStats
    /\ now = 0
    /\ last_modified = EmptyBag
    /\ processing_files = {}
    /\ is_watching = TRUE
    /\ observer = "running"
    /\ thr = [i \in Threads |-> IdleThread]
    /\ ops = 0
    /\ last = NoOp
    /\ observed = [p \in NotePaths |-> [kind |-> "none", file |-> Absent]]
    /\ win = [p \in NotePaths |-> NoWindow]
    /\ lossy = FALSE
    /\ handlers = 1
    /\ built = NotBuilt
    /\ conversation_history = << >>
    /\ exchanges = 0

\* the backlog is worked off; the detection call may fail in any dispatch
NextDetect ==
    \/ Tick
    \/ \E in \in DetectInputs : Dispatch(in)

SpecDetect == InitDetect /\ [][NextDetect]_vars

\* the watcher alone
NextWatch ==
    \/ FsStep
    \/ Tick
    \/ StartWatching
    \/ StopWatching
    \/ \E in \in Inputs : Dispatch(in)

SpecWatch == Init /\ [][NextWatch]_vars

\* -------------------------------------- both file filters on one tree
\* os.walk prunes a directory whose name should_skip_directory rejects, so
\* a directory is visited when no part of it below the vault is rejected
Visited(d) ==
    \A i \in (Len(VaultRoot) + 1)..Len(d) : ~should_skip_directory(d[i])

\* what goes wrong per file of the tree; a file that index_vault never
\* opens (not a note, or below a pruned directory) cannot fail
TreeFails ==
    {f \in [Candidates -> IndexFails] :
        \A p \in Candidates :
            (~should_process_file(p) \/ ~Visited(Parent(p))) => f[p] = "none"}
NoTreeFail == [p \in Candidates |-> "none"]

\* the directories of the tree below the vault root that os.walk descends
\* into
VisitedDirs ==
    {d \in {Parent(p) : p \in Candidates} : d # VaultRoot /\ Visited(d)}

\* the files os.walk lists in the directories it visits
Encountered(disk) ==
    {p \in Candidates : Visited(Parent(p)) /\ ~IsAbsent(disk[p])}

\* the same with the root folder left out of folders_processed
index_vault_tree_RootUncounted(g, disk, fail) ==
    LET st0 == [g |-> create_folder_nodes(g, VaultRoot), stats |-> ZeroStats]
        st1 == FolderNodesFor(st0, VisitedDirs, VaultRoot)
    IN IndexFiles(st1, SetToSeq(Encountered(disk)), disk, fail, VaultRoot)

\* index_vault on the tree that holds the files of Candidates
index_vault_tree(g, disk, fail) ==
    LET st0 == [g |-> create_folder_nodes(g, VaultRoot),
                stats |-> [ZeroStats EXCEPT !.folders_processed = 1]]
        st1 == FolderNodesFor(st0, VisitedDirs, VaultRoot)
    IN IndexFiles(st1, SetToSeq(Encountered(disk)), disk, fail, VaultRoot)

IndexTreeAt(fail) ==
    /\ LET r == index_vault_tree(graph, fs, fail)
       IN /\ graph' = r.g
          /\ stats' = r.stats
    /\ last' = [NoOp EXCEPT !.op = "index", !.clean = (fail = NoTreeFail),
                            !.fail = fail]
    /\ UNCHANGED <<chat_vars, built, handlers, fs, queue, now, last_modified,
                   processing_files, is_watching, observer, thr, ops,
                   observed, win, lossy>>

\* a run in which no file fails
IndexTree == IndexTreeAt(NoTreeFail)

\* the full indexer on any tree of the model, every file failing in every
\* way
InitWalk ==
    /\ fs \in {d \in [Candidates -> {ContentStart, ContentEmpty, Absent}] :
                  /\ \A p \in Candidates \ {FileA} : d[p] # ContentEmpty
                  /\ d[MetaNote] = Absent}
    /\ graph = EmptyGraph
    /\ stats = ZeroStats
    /\ queue = << >>
    /\ now = 0
    /\ last_modified = EmptyBag
    /\ processing_files = {}
    /\ is_watching = FALSE
    /\ observer = "new"
    /\ thr = [i \in Threads |-> IdleThread]
    /\ ops = 0
    /\ last = NoOp
    /\ observed = [p \in Candidates |-> [kind |-> "none", file |-> Absent]]
    /\ win = [p \in Candidates |-> NoWindow]
    /\ lossy = FALSE
    /\ handlers = 0
    /\ built = NotBuilt
    /\ conversation_history = << >>
    /\ exchanges = 0

\* only a file that is there can fail
NextWalk ==
    \E fail \in TreeFails :
        /\ \A p \in Candidates : IsAbsent(fs[p]) => fail[p] = "none"
        /\ IndexTreeAt(fail)

SpecWalk == InitWalk /\ [][NextWalk]_vars

\* a running watcher on an empty tree
InitTree ==
    /\ fs = [p \in Candidates |-> Absent]
    /\ graph = EmptyGraph
    /\ stats = ZeroStats
    /\ queue = << >>
    /\ now = 0
    /\ last_modified = EmptyBag
    /\ processing_files = {}
    /\ is_watching = TRUE
    /\ observer = "running"
    /\ thr = [i \in Threads |-> IdleThread]
    /\ ops = 0
    /\ last = NoOp
    /\ observed = [p \in Candidates |-> [kind |-> "none", file |-> Absent]]
    /\ win = [p \in Candidates |-> NoWindow]
    /\ lossy = FALSE
    /\ handlers = 1
    /\ built = NotBuilt
    /\ conversation_history = << >>
    /\ exchanges = 0

NextTree ==
    \/ \E p \in Candidates : WriteFile(p, ContentStart)
    \/ Tick
    \/ \E in \in Inputs : Dispatch(in)
    \/ IndexTree

SpecTree == InitTree /\ [][NextTree]_vars

\* ------------------------------ an index run while the vault is edited
\* The loop body of index_vault reads a file twice: get_note_content reads
\* and parses it, and create_note_node calls calculate_note_hash, which
\* opens the path again; get_note_stats stats it in between.  The user's
\* editor may write the file between the two reads.
IdleReader == [pc |-> "idle", src |-> << >>, data |-> Absent]

\* what create_note_node sets: name, the body parsed by get_note_content,
\* and the hash and size of the file as it is when they are taken ("" and
\* no size when the file is gone by then)
IdxPropsAt(p, data, cur) ==
    [name |-> Name(p), content |-> data.body,
     hash |-> IF IsAbsent(cur) THEN NoHash ELSE calculate_note_hash(cur),
     size |-> IF IsAbsent(cur) THEN 0 ELSE cur.size]

InitEdit ==
    /\ fs = [p \in NotePaths |-> IF p = FileA THEN ContentAB ELSE Absent]
    /\ graph = create_folder_nodes(EmptyGraph, NotesDir)
    /\ stats = ZeroStats
    /\ queue = << >>
    /\ now = 0
    /\ last_modified = EmptyBag
    /\ processing_files = {}
    /\ is_watching = FALSE
    /\ observer = "new"
    /\ thr = IdleReader
    /\ ops = 0
    /\ last = NoOp
    /\ observed = [p \in NotePaths |-> [kind |-> "none", file |-> Absent]]
    /\ win = [p \in NotePaths |-> NoWindow]
    /\ lossy = FALSE
    /\ handlers = 0
    /\ built = NotBuilt
    /\ conversation_history = << >>
    /\ exchanges = 0

\* get_note_content(file_path) for a file the walk has listed
ReadNote(p) ==
    /\ thr.pc = "idle"
    /\ stats.notes_processed < MaxOps
    /\ ~IsAbsent(fs[p])
    /\ get_note_content(fs[p], "none").ok
    /\ thr' = [pc |-> "read", src |-> p, data |-> fs[p]]
    /\ last' = [NoOp EXCEPT !.op = "read", !.path = p]
    /\ UNCHANGED <<chat_vars, fs, graph, stats, queue, now, last_modified,
                   processing_files, is_watching, observer, ops, observed,
                   win, lossy, handlers, built>>

\* get_note_stats, create_note_node (with its calculate_note_hash) and
\* create_note_relationships
WriteNote ==
    /\ thr.pc = "read"
    /\ LET p == thr.src
           g1 == [graph EXCEPT
                     !.notes = MergeNode(@, IdxNote(p)),
                     !.props = [k \in (DOMAIN graph.props) \cup {IdxNote(p)} |->
                                   IF k = IdxNote(p)
                                   THEN IdxPropsAt(p, thr.data, fs[p])
                                   ELSE graph.props[k]]]
       IN /\ graph' = create_note_relationships(g1, p, thr.data)
          /\ last' = [NoOp EXCEPT !.op = "index", !.path = p]
    /\ stats' = [stats EXCEPT !.notes_processed = @ + 1]
    /\ thr' = IdleReader
    /\ UNCHANGED <<chat_vars, fs, queue, now, last_modified, processing_files,
                   is_watching, observer, ops, observed, win, lossy, handlers,
                   built>>

NextEdit ==
    \/ FsStep
    \/ \E p \in NotePaths : ReadNote(p)
    \/ WriteNote

SpecEdit == InitEdit /\ [][NextEdit]_vars

\* ---------------------------------------------------------- chat mode
\* conversation_history.append(...), then the cut to the last entries
chat_append(h, e) ==
    LET h1 == Append(h, e)
    IN IF Len(h1) > HISTORY_LIMIT
       THEN SubSeq(h1, Len(h1) - HISTORY_KEEP + 1, Len(h1))
       ELSE h1

\* chat_mode is entered: conversation_history = []
StartChat ==
    /\ conversation_history' = << >>
    /\ last' = [NoOp EXCEPT !.op = "chat", !.outcome = "start"]
    /\ UNCHANGED <<exchanges, fs, graph, stats, queue, now, last_modified,
                   processing_files, is_watching, observer, thr, ops,
                   observed, win, lossy, handlers, built>>

\* one turn of the loop with a question: chat_query answers and the
\* exchange is recorded, or it raises and the loop goes on
Ask(ok) ==
    /\ exchanges < MaxExchanges
    /\ IF ok
       THEN /\ conversation_history' =
                  chat_append(conversation_history, [user |-> exchanges + 1])
            /\ exchanges' = exchanges + 1
       ELSE UNCHANGED <<conversation_history, exchanges>>
    /\ last' = [NoOp EXCEPT !.op = "chat",
                            !.outcome = IF ok THEN "answer" ELSE "error"]
    /\ UNCHANGED <<fs, graph, stats, queue, now, last_modified,
                   processing_files, is_watching, observer, thr, ops,
                   observed, win, lossy, handlers, built>>

NextChat ==
    \/ StartChat
    \/ \E ok \in BOOLEAN : Ask(ok)

SpecChat == Init /\ [][NextChat]_vars

\* both producers on one store
Next ==
    \/ NextWatch
    \/ IndexVault(NoFail)

Spec == Init /\ [][Next]_vars

\* ------------------------------------- deliveries on concurrent threads
\* on_created / on_modified / on_deleted / on_moved entered by thread i
Deliver(i, type, p) ==
    /\ is_watching
    /\ ops < MaxDeliveries
    /\ thr[i].pc = "idle"
    /\ ops' = ops + 1
    /\ thr' = [thr EXCEPT ![i] =
                  IF Suffix(Name(p)) = ".md"
                  THEN [pc |-> "entered", src |-> p, type |-> type]
                  ELSE IdleThread]
    /\ last' = NoOp
    /\ UNCHANGED <<chat_vars, built, handlers, fs, graph, stats, queue, now, last_modified,
                   processing_files, is_watching, observer, observed, win,
                   lossy>>

\* _process_file_change: the two early returns; both fall into "finally"
CheckGuards(i) ==
    /\ thr[i].pc = "entered"
    /\ thr' = [thr EXCEPT ![i].pc =
                  IF should_ignore(thr[i].src) \/ thr[i].src \in processing_files
                  THEN "finally" ELSE "add"]
    /\ last' = IF ~should_ignore(thr[i].src) /\ thr[i].src \in processing_files
               THEN [NoOp EXCEPT !.op = "skip", !.type = thr[i].type,
                                 !.path = thr[i].src]
               ELSE NoOp
    /\ UNCHANGED <<chat_vars, built, handlers, fs, graph, stats, queue, now, last_modified,
                   processing_files, is_watching, observer, ops, observed, win,
                   lossy>>

\* processing_files.add(file_path), then the callback is entered
EnterCallback(i) ==
    /\ thr[i].pc = "add"
    /\ processing_files' = processing_files \cup {thr[i].src}
    /\ thr' = [thr EXCEPT ![i].pc = "in_callback"]
    /\ last' = [NoOp EXCEPT !.op = "enter", !.type = thr[i].type,
                            !.path = thr[i].src]
    /\ UNCHANGED <<chat_vars, built, handlers, fs, graph, stats, queue, now, last_modified, is_watching,
                   observer, ops, observed, win, lossy>>

\* the callback runs and returns (or raises: the handler logs it)
LeaveCallback(i, in) ==
    /\ thr[i].pc = "in_callback"
    /\ LET r == handle_file_change(graph, last_modified, thr[i].src,
                                   thr[i].type, now, fs, in)
       IN /\ graph' = r.g
          /\ last_modified' = r.lm
          /\ last' = [NoOp EXCEPT !.op = "dispatch", !.type = thr[i].type,
                                  !.path = thr[i].src, !.dest = thr[i].src,
                                  !.outcome = r.outcome,
                                  !.clean = InputClean(in)]
    /\ thr' = [thr EXCEPT ![i].pc = "finally"]
    /\ lossy' = (lossy \/ ~InputClean(in))
    /\ UNCHANGED <<chat_vars, built, handlers, fs, stats, queue, now, processing_files, is_watching,
                   observer, ops, observed, win>>

\* finally: processing_files.discard(file_path), on every way out
Finally(i) ==
    /\ thr[i].pc = "finally"
    /\ processing_files' = processing_files \ {thr[i].src}
    /\ thr' = [thr EXCEPT ![i] = IdleThread]
    /\ last' = NoOp
    /\ UNCHANGED <<chat_vars, built, handlers, fs, graph, stats, queue, now, last_modified, is_watching,
                   observer, ops, observed, win, lossy>>

NextConc ==
    \/ StartWatching
    \/ \E i \in Threads, type \in {"modified", "deleted"}, p \in EventPaths :
          Deliver(i, type, p)
    \/ \E i \in Threads : CheckGuards(i)
    \/ \E i \in Threads : EnterCallback(i)
    \/ \E i \in Threads, in \in Inputs : LeaveCallback(i, in)
    \/ \E i \in Threads : Finally(i)

SpecConc == Init /\ [][NextConc]_vars

\* a delivery that has entered the handler runs to its end: the thread that
\* delivers it is scheduled; nothing makes the observer deliver more events
HandlerSteps ==
    \/ \E i \in Threads : CheckGuards(i)
    \/ \E i \in Threads : EnterCallback(i)
    \/ \E i \in Threads, in \in Inputs : LeaveCallback(i, in)
    \/ \E i \in Threads : Finally(i)

SpecConcFair == SpecConc /\ WF_vars(HandlerSteps)

\* ------------------------------------ index runs that share the store
\* Several processes run index_vault against the same store.  Every
\* session.run of _create_content_relationships is a transaction of its
\* own.  No uniqueness constraint covers Tag, InternalLink, ExternalLink or
\* Header, so a MERGE on one of them takes no lock: it matches, and creates
\* the node when its match found none, and another writer's transaction
\* may commit in between.
Writers == 1..NumWriters
IdleWriter == [pc |-> "idle", src |-> << >>, todo |-> {}, found |-> FALSE]

\* the vocabulary statements that _create_content_relationships runs
Vocab(c) ==
    {<<"ilink", x>> : x \in extract_internal_links(c)}
        \cup {<<"tag", x>> : x \in extract_tags(c)}
        \cup {<<"header", x>> : x \in extract_headers(c)}
        \cup {<<"elink", x>> : x \in extract_external_links(c)}

\* the entry the loops of a writer are at
Cur(w) == CHOOSE x \in w.todo : TRUE

InitWriters ==
    /\ fs = [p \in NotePaths |-> IF p = FileA THEN ContentAB ELSE ContentBC]
    /\ graph = create_folder_nodes(EmptyGraph, NotesDir)
    /\ stats = ZeroStats
    /\ queue = << >>
    /\ now = 0
    /\ last_modified = EmptyBag
    /\ processing_files = {}
    /\ is_watching = FALSE
    /\ observer = "new"
    /\ thr = [i \in Writers |-> IdleWriter]
    /\ ops = 0
    /\ last = NoOp
    /\ observed = [p \in NotePaths |-> [kind |-> "none", file |-> Absent]]
    /\ win = [p \in NotePaths |-> NoWindow]
    /\ lossy = FALSE
    /\ handlers = 0
    /\ built = NotBuilt
    /\ conversation_history = << >>
    /\ exchanges = 0

\* a run reaches file p: create_note_node and the Folder-CONTAINS-Note edge
WriterBegin(i, p) ==
    /\ thr[i].pc = "idle"
    /\ \A j \in Writers : thr[j].src # p
    /\ LET c == fs[p]
           g1 == IdxCreateNoteNode(graph, p, c)
       IN graph' = [g1 EXCEPT !.contains_note =
                       MergeEdge(@, <<Parent(p), IdxNote(p)>>,
                                 FoldersAt(g1, Parent(p)),
                                 Cnt(g1.notes, IdxNote(p)))]
    /\ thr' = [thr EXCEPT ![i] = [pc |-> "merge", src |-> p,
                                  todo |-> Vocab(fs[p]), found |-> FALSE]]
    /\ last' = [NoOp EXCEPT !.op = "merge", !.path = p]
    /\ UNCHANGED <<chat_vars, fs, stats, queue, now, last_modified, processing_files,
                   is_watching, observer, ops, observed, win, lossy, handlers,
                   built>>

\* MERGE (x:Label {key}), first half: the match
VocabMatch(i) ==
    /\ thr[i].pc = "merge"
    /\ thr[i].todo # {}
    /\ LET x == Cur(thr[i])
       IN thr' = [thr EXCEPT ![i].pc = "create",
                             ![i].found = Cnt(graph[NodeField(x[1])], x[2]) > 0]
    /\ last' = [NoOp EXCEPT !.op = "merge", !.path = thr[i].src]
    /\ UNCHANGED <<chat_vars, fs, graph, stats, queue, now, last_modified,
                   processing_files, is_watching, observer, ops, observed,
                   win, lossy, handlers, built>>

\* MERGE (x:Label {key}), second half: the create when nothing had matched
VocabCreate(i) ==
    /\ thr[i].pc = "create"
    /\ LET x == Cur(thr[i])
       IN graph' = IF thr[i].found THEN graph
                   ELSE [graph EXCEPT ![NodeField(x[1])] = CreateNode(@, x[2])]
    /\ thr' = [thr EXCEPT ![i].pc = "link"]
    /\ last' = [NoOp EXCEPT !.op = "merge", !.path = thr[i].src]
    /\ UNCHANGED <<chat_vars, fs, stats, queue, now, last_modified, processing_files,
                   is_watching, observer, ops, observed, win, lossy, handlers,
                   built>>

\* MATCH (n:Note) MATCH (x) MERGE (n)-[:R]->(x); the loop moves on
VocabLink(i) ==
    /\ thr[i].pc = "link"
    /\ LET x == Cur(thr[i])
           nk == IdxNote(thr[i].src)
           nf == NodeField(x[1])
       IN graph' = [graph EXCEPT ![EdgeField(x[1])] =
                       MergeEdge(@, <<nk, x[2]>>, Cnt(graph.notes, nk),
                                 Cnt(graph[nf], x[2]))]
    /\ thr' = [thr EXCEPT ![i].pc = IF thr[i].todo = {Cur(thr[i])}
                                    THEN "done" ELSE "merge",
                          ![i].todo = @ \ {Cur(thr[i])}]
    /\ last' = [NoOp EXCEPT !.op = "merge", !.path = thr[i].src]
    /\ UNCHANGED <<chat_vars, fs, stats, queue, now, last_modified, processing_files,
                   is_watching, observer, ops, observed, win, lossy, handlers,
                   built>>

NextWriters ==
    \/ \E i \in Writers, p \in NotePaths : WriterBegin(i, p)
    \/ \E i \in Writers : VocabMatch(i)
    \/ \E i \in Writers : VocabCreate(i)
    \/ \E i \in Writers : VocabLink(i)

SpecWriters == InitWriters /\ [][NextWriters]_vars

\* ------------------------------------------------------------ properties
OutEdges(g, nk, field) == {k[2] : k \in {x \in DOMAIN g[field] : x[1] = nk}}

\* every edge that touches a Note node of path p, whatever key it has
EdgesTouching(g, p) ==
    LET nks == {IdxNote(p), KgNote(p)}
    IN [f \in EdgeFields \cup {"contains_note"} |->
           {k \in DOMAIN g[f] : k[1] \in nks \/ k[2] \in nks}]

NoEdges == [f \in EdgeFields \cup {"contains_note"} |-> {}]

\* the watcher's Note node of p holds file f
NoteHolds(g, p, f) ==
    /\ Cnt(g.notes, KgNote(p)) = 1
    /\ g.props[KgNote(p)].content = f.body
    /\ g.props[KgNote(p)].tags = WatcherTags(f)
    /\ g.props[KgNote(p)].links = WatcherLinks(f)

\* C1: once every observed event has been handled (no store failure, no
\* event dropped), each path whose last event was created/modified has a
\* Note node holding the file as of that event, and each path whose last
\* event was deleted or moved away has no Note node
C1_Convergence ==
    (queue = << >> /\ ~lossy) =>
        \A p \in NotePaths :
            /\ observed[p].kind = "upsert" => NoteHolds(graph, p, observed[p].file)
            /\ observed[p].kind = "delete" => NotesAt(graph, p) = 0

\* C2: after a failure-free index run, the outgoing vocabulary edges of
\* every indexed note are exactly those of its current content
C2_EdgeExactness ==
    (last.op = "index" /\ last.clean) =>
        \A p \in NotePaths :
            ~IsAbsent(fs[p]) =>
                /\ OutEdges(graph, IdxNote(p), "tagged_with") = extract_tags(fs[p])
                /\ OutEdges(graph, IdxNote(p), "links_to")
                       = extract_internal_links(fs[p])
                /\ OutEdges(graph, IdxNote(p), "links_to_external")
                       = extract_external_links(fs[p])
                /\ OutEdges(graph, IdxNote(p), "has_header")
                       = extract_headers(fs[p])

NoDuplicates(g) ==
    \A f \in DOMAIN g : f # "props" => \A k \in DOMAIN g[f] : g[f][k] = 1

\* C3: a second failure-free index_vault on an unchanged vault leaves every
\* node and every edge of the store as it was (same nodes, same edges, same
\* counts) and there is no duplicate node or edge
C3_IndexIdempotent ==
    [][(last.op = "index" /\ last.clean /\ last'.op = "index" /\ last'.clean)
          => /\ \A f \in DOMAIN graph : f # "props" => graph'[f] = graph[f]
             /\ NoDuplicates(graph')]_vars

C3_Witness ==
    /\ last.op = "index" /\ last.clean /\ last.rerun
    /\ Cnt(graph.notes, IdxNote(FileA)) = 1
    /\ Cnt(graph.notes, IdxNote(FileB)) = 1
    /\ DOMAIN graph.tagged_with # {}

SharesTag(g, p, q, x) ==
    /\ p # q
    /\ \E np \in {IdxNote(p), KgNote(p)}, nq \in {IdxNote(q), KgNote(q)} :
          /\ <<np, x>> \in DOMAIN g.tagged_with
          /\ <<nq, x>> \in DOMAIN g.tagged_with

\* C4: handling the deletion of a note that shares a Tag with another note
\* removes its Note node and every edge touching it; the Tag node, the other
\* note and the other note's edge stay, and no vocabulary node is deleted
C4_DeleteCascade ==
    [][\A p \in NotePaths, q \in NotePaths, x \in DOMAIN graph.tags :
          (/\ SharesTag(graph, p, q, x)
           /\ last'.op = "dispatch" /\ last'.type = "deleted"
           /\ last'.path = p /\ last'.outcome = "deletion" /\ last'.clean)
          => /\ NotesAt(graph', p) = 0
             /\ EdgesTouching(graph', p) = NoEdges
             /\ graph'.tags = graph.tags
             /\ NotesAt(graph', q) = NotesAt(graph, q)
             /\ EdgesTouching(graph', q) = EdgesTouching(graph, q)]_vars

Called(l) == l.op = "dispatch" /\ l.outcome \in {"update", "deletion", "debounced"}

\* C5: every deleted or moved event that reaches the callback has the
\* deletion of its path performed, whatever was handled just before
C5_DeleteBypassesDebounce ==
    (Called(last) /\ last.type \in {"deleted", "moved"})
        => last.outcome = "deletion"

C7_TrailingEdge ==
    (Called(last) /\ last.type \in {"created", "modified"}) => ~last.early

\* C8: once a move from A to B has been handled there is no Note node at A
\* and exactly one Note node at B, holding the file at B
C8_MoveSemantics ==
    (/\ Called(last) /\ last.type = "moved" /\ last.clean
     /\ ~IsAbsent(fs[last.dest]))
        => /\ NotesAt(graph, last.path) = 0
           /\ NotesAt(graph, last.dest) = 1
           /\ NoteHolds(graph, last.dest, fs[last.dest])

\* C9: the store never holds two Note nodes for the same file
C9_OneNotePerPath == \A p \in NotePaths : NotesAt(graph, p) <= 1

AllFails == [NotePaths -> IndexFails]

C12_DeleteIndexedNote ==
    [][\A p \in NotePaths :
          (/\ Cnt(graph.notes, IdxNote(p)) > 0
           /\ last'.op = "dispatch" /\ last'.type = "deleted"
           /\ last'.path = p /\ last'.outcome = "deletion" /\ last'.clean)
          => /\ NotesAt(graph', p) = 0
             /\ EdgesTouching(graph', p) = NoEdges]_vars

ScenarioVault == (FileA :> ContentIntro) @@ (FileB :> ContentStart)

\* the scenario's expectation apart from the Folder count
ScenarioContent(g) ==
    /\ Total(g.notes) = 2
    /\ Cnt(g.notes, IdxNote(FileA)) = 1 /\ Cnt(g.notes, IdxNote(FileB)) = 1
    /\ g.headers = (<<"Intro", 1>> :> 1) @@ (<<"Start", 1>> :> 1)
    /\ g.tags = ("topic" :> 1)
    /\ g.ilinks = ("b" :> 1)
    /\ g.has_header = (<<IdxNote(FileA), <<"Intro", 1>>>> :> 1)
                        @@ (<<IdxNote(FileB), <<"Start", 1>>>> :> 1)
    /\ g.tagged_with = (<<IdxNote(FileA), "topic">> :> 1)
    /\ g.links_to = (<<IdxNote(FileA), "b">> :> 1)
    /\ g.contains_note = (<<NotesDir, IdxNote(FileA)>> :> 1)
                           @@ (<<NotesDir, IdxNote(FileB)>> :> 1)

\* C13: indexing the two-note scenario vault into an empty store gives 2
\* Note nodes, 1 Folder node (notes), the two Header nodes, Tag topic and
\* InternalLink b, the three edges of a.md, and notes CONTAINS both notes
C13_Scenario ==
    [][(/\ graph = EmptyGraph /\ fs = ScenarioVault
        /\ last'.op = "index" /\ last'.clean)
       => /\ ScenarioContent(graph')
          /\ Total(graph'.folders) = 1
          /\ Cnt(graph'.folders, <<NotesDir, "notes">>) = 1]_vars

Grouped(g, p, q) ==
    \E d \in find_duplicate_notes(g) : {p, q} \subseteq d.note_paths

\* both files are on disk and p is not q
TwoFiles(p, q) == p # q /\ ~IsAbsent(fs[p]) /\ ~IsAbsent(fs[q])

DuplicatePair(g, p, q) ==
    /\ Cnt(g.notes, IdxNote(p)) = 1 /\ Cnt(g.notes, IdxNote(q)) = 1
    /\ g.props[IdxNote(p)].hash = g.props[IdxNote(q)].hash
    /\ Grouped(g, p, q)

InIgnoredDir(p) ==
    \E i \in 1..Len(p), pat \in IGNORE_PATTERNS : p[i] = pat[1]

\* C15: an event for a file that is not a note, or that lies inside an
\* ignored directory, never reaches the callback and leaves no entry in a
\* tracking table
C15_Filters ==
    \A p \in EventPaths :
        (Suffix(Name(p)) # ".md" \/ InIgnoredDir(p)) =>
            /\ p \notin DOMAIN last_modified
            /\ p \notin processing_files
            /\ \A i \in Threads : thr[i].pc = "in_callback" => thr[i].src # p

\* C16: after an index run no file above the size limit has a Note node
C16_SizeLimit ==
    last.op = "index" =>
        \A p \in NotePaths :
            (~IsAbsent(fs[p]) /\ fs[p].size > MAX_NOTE_SIZE)
                => NotesAt(graph, p) = 0

\* the files of the vault by what happens to them in a run with failures fail
ReadFails(fail) == {p \in NotePaths : ~IsAbsent(fs[p]) /\ fail[p] = "read"}
EmptyFiles(fail) ==
    {p \in NotePaths : ~IsAbsent(fs[p]) /\ fail[p] # "read" /\ fs[p].size = 0}
WasRead(fail) ==
    {p \in NotePaths : ~IsAbsent(fs[p]) /\ fail[p] # "read" /\ fs[p].size > 0}
StoreFails(fail) == {p \in WasRead(fail) : fail[p] \in {"node", "rels"}}
Processed(fail) == {p \in WasRead(fail) : fail[p] = "none"}

\* every file that did not fail is in the store with its current content
OthersIndexed(g, fail) ==
    \A p \in Processed(fail) :
        /\ Cnt(g.notes, IdxNote(p)) = 1
        /\ g.props[IdxNote(p)] = IdxProps(p, fs[p])
        /\ <<NotesDir, IdxNote(p)>> \in DOMAIN g.contains_note
        /\ extract_tags(fs[p]) \subseteq OutEdges(g, IdxNote(p), "tagged_with")

FailedDispatch ==
    /\ last'.op = "dispatch"
    /\ last'.outcome \in {"update", "deletion"}
    /\ \/ ~last'.clean
       \/ last'.outcome = "update" /\ ~read_note_file(last'.path, fs).ok

C18_WatcherFailureDropped ==
    [][FailedDispatch =>
          /\ is_watching' = is_watching
          /\ is_watching'
          /\ observer' = observer
          /\ handlers' = handlers
          /\ last'.path \notin processing_files']_vars

C18_Witness ==
    /\ last.op = "dispatch"
    /\ last.outcome = "update"
    /\ ~last.clean
    /\ read_note_file(last.path, fs).ok
    /\ is_watching
    /\ last.path \notin processing_files

\* C19: build_initial_knowledge_graph isolates the failure of a file: the
\* other files are still read and added, the status returned is "success",
\* and files_processed is the number of files read and added without error
BuildAdded(fail) ==
    {p \in NotePaths :
        /\ read_note_file(p, fs).ok
        /\ ~should_ignore(p)
        /\ fail[p] = "none"}

C19_BuildIsolation ==
    [][(last'.op = "build" /\ built'.status # "raised"
           /\ \E p \in NotePaths : ~IsAbsent(fs[p])) =>
          LET fail == last'.fail
          IN /\ built'.status = "success"
             /\ built'.files_processed = Cardinality(BuildAdded(fail))
             /\ \A p \in BuildAdded(fail) :
                   /\ Cnt(graph'.notes, KgNote(p)) = Cnt(graph.notes, KgNote(p))
                         + (IF Cnt(graph.notes, KgNote(p)) = 0 THEN 1 ELSE 0)
                   /\ graph'.props[KgNote(p)].content = fs[p].body
                   /\ \A e \in Entities :
                         Cnt(graph'.contains_entity, <<KgNote(p), e>>) > 0]_vars

C19_Witness ==
    /\ last.op = "build"
    /\ \E p \in NotePaths : last.fail[p] \in {"note", "entity", "detect"}
    /\ \A p \in NotePaths : read_note_file(p, fs).ok
    /\ built.status = "success"
    /\ built.files_processed = 1
    /\ built.total_files = 2

\* C20: start_watching on a running watcher changes nothing: no handler is
\* scheduled, the observer is not started again, is_watching stays TRUE
C20_StartIdempotent ==
    [][(is_watching /\ last'.op = "start") =>
          /\ handlers' = handlers
          /\ observer' = observer
          /\ is_watching'
          /\ UNCHANGED <<fs, graph, queue, last_modified, processing_files>>]_vars

C20_Witness ==
    /\ last.op = "start"
    /\ last.rerun
    /\ is_watching
    /\ observer = "running"
    /\ handlers = 1

\* ------------------------------------------------- claims C21 to C30
\* the tracking entries, the Note nodes and the edges of every path but p
\* are the same before and after the step
OtherPathsKept(p) ==
    \A q \in NotePaths \ {p} :
        /\ (q \in DOMAIN last_modified') = (q \in DOMAIN last_modified)
        /\ q \in DOMAIN last_modified => last_modified'[q] = last_modified[q]
        /\ (q \in processing_files') = (q \in processing_files)
        /\ NotesAt(graph', q) = NotesAt(graph, q)
        /\ EdgesTouching(graph', q) = EdgesTouching(graph, q)

\* p has an entry of its own that is younger than the debounce delay
OwnWindow(p) ==
    p \in DOMAIN last_modified /\ now - last_modified[p] < debounce_delay

ChainLevels(vault, d) ==
    {SubSeq(Seen(vault, d), 1, n) : n \in Len(vault)..Len(Seen(vault, d))}

\* C22: after an index run every directory visited, the vault root included,
\* has one Folder node, as has every level of the chain from the root down
\* to it, and every level but the top has a CONTAINS edge from the Folder of
\* its parent path
C22_FolderChain ==
    last.op = "index" =>
        \A d \in Dirs : \A x \in ChainLevels(last.root, d) :
            /\ Cnt(graph.folders, <<x, Name(x)>>) = 1
            /\ x # last.root =>
                  Cnt(graph.contains_folder, <<Parent(x), x>>) = 1

\* the Note node nk of path p has one incoming CONTAINS edge, from the one
\* Folder node of the parent directory of p
LinkedToFolder(g, p, nk) ==
    /\ {k \in DOMAIN g.contains_note : k[2] = nk} = {<<Parent(p), nk>>}
    /\ g.contains_note[<<Parent(p), nk>>] = 1
    /\ FoldersAt(g, Parent(p)) = 1

\* C23: after a note is upserted, by an index run or by a watcher update,
\* there is exactly one CONTAINS edge into the Note, from the Folder node of
\* its parent directory
C23_NoteInFolder ==
    /\ (last.op = "index" /\ last.clean) =>
          \A p \in NotePaths :
              (~IsAbsent(fs[p]) /\ fs[p].size > 0) =>
                  LinkedToFolder(graph, p, IdxNote(p))
    /\ (/\ last.op = "dispatch" /\ last.outcome = "update" /\ last.clean
        /\ read_note_file(last.path, fs).ok) =>
          LinkedToFolder(graph, last.path, KgNote(last.path))

\* the Note node of p and its outgoing vocabulary edges are those of file f
\* and no others
SyncedExactly(g, p, f) ==
    /\ Cnt(g.notes, IdxNote(p)) = 1
    /\ g.props[IdxNote(p)] = IdxProps(p, f)
    /\ OutEdges(g, IdxNote(p), "tagged_with") = extract_tags(f)
    /\ OutEdges(g, IdxNote(p), "links_to") = extract_internal_links(f)
    /\ OutEdges(g, IdxNote(p), "links_to_external") = extract_external_links(f)
    /\ OutEdges(g, IdxNote(p), "has_header") = extract_headers(f)

\* C24: when the index run of a file has failed part-way (the Note node
\* written, its relationships not), the next successful run leaves the note
\* with exactly the node and the edges that a failure-free synchronization
\* of its current content gives
C24_SelfHealing ==
    [][\A p \in NotePaths :
          (/\ last.op = "index" /\ last.fail[p] = "rels"
           /\ ~IsAbsent(fs[p]) /\ fs[p].size > 0
           /\ last'.op = "index" /\ last'.clean)
          => SyncedExactly(graph', p, fs[p])]_vars

\* C25: the events of one path are handled in the order in which they were
\* observed: when an event is handled, every event of the same path that is
\* still queued was observed after it
C25_PerPathOrder ==
    [][last'.op = "dispatch" =>
          \A i \in 1..Len(queue') :
              queue'[i].src = last'.path => queue'[i].seq > last'.seq]_vars

C25_Witness ==
    /\ last.op = "dispatch"
    /\ last.type \in {"created", "modified"}
    /\ last.outcome = "update"
    /\ queue # << >>
    /\ Head(queue).src = last.path
    /\ Head(queue).type = "deleted"
    /\ Head(queue).seq > last.seq

\* the deleted event of rank s of path p has just been handled and the
\* deletion performed
DeletionHandled(p, s) ==
    /\ last.op = "dispatch" /\ last.type = "deleted" /\ last.path = p
    /\ last.outcome = "deletion" /\ last.clean /\ last.seq = s

\* an event of path p observed before rank s has just upserted the note
UpsertFromEarlier(p, s) ==
    /\ last.op = "dispatch" /\ last.type \in {"created", "modified"}
    /\ last.path = p /\ last.outcome = "update" /\ last.seq < s
    /\ NotesAt(graph, p) > 0

\* C26: once the deleted event of a path has been handled, no created or
\* modified event that was observed before it upserts the note of that path
C26_NoResurrection ==
    \A p \in NotePaths : \A s \in 1..MaxBacklog :
        [](DeletionHandled(p, s) => []~UpsertFromEarlier(p, s))

C26_Witness ==
    /\ last.op = "dispatch" /\ last.type = "deleted"
    /\ last.outcome = "deletion" /\ last.clean /\ ~lossy
    /\ last.seq > 1
    /\ win[last.path].calls = 1
    /\ NotesAt(graph, last.path) = 0

DetectionFailed ==
    /\ last'.op = "dispatch" /\ last'.outcome = "update"
    /\ last'.api = "error" /\ last'.clean
    /\ read_note_file(last'.path, fs).ok

\* C28 as stated: when the detection call fails the dispatch still runs to
\* its end, the note is created or updated with the file's content, and no
\* entity is written for it
C28_DetectionFailure ==
    [][DetectionFailed =>
          /\ NoteHolds(graph', last'.path, fs[last'.path])
          /\ graph'.entities = graph.entities
          /\ graph'.contains_entity = graph.contains_entity]_vars

\* C28 amended: the same, with the entities of the fallback detection, and
\* no others, written and linked to the note
C28_DetectionFallback ==
    [][DetectionFailed =>
          LET nk == KgNote(last'.path)
              found == fallback_entity_detection(
                           read_note_file(last'.path, fs))
          IN /\ NoteHolds(graph', last'.path, fs[last'.path])
             /\ DOMAIN graph'.entities = (DOMAIN graph.entities) \cup found
             /\ DOMAIN graph'.contains_entity =
                    (DOMAIN graph.contains_entity)
                        \cup {<<nk, e>> : e \in found}]_vars

C28_Witness ==
    /\ last.op = "dispatch" /\ last.outcome = "update"
    /\ last.api = "error" /\ last.clean
    /\ fs[last.path] = ContentPerson
    /\ NoteHolds(graph, last.path, ContentPerson)
    /\ <<KgNote(last.path), "Ada Lovelace">> \in DOMAIN graph.contains_entity

Upserted(p, fail) ==
    /\ ~IsAbsent(fs[p])
    /\ should_process_file(p)
    /\ get_note_content(fs[p], "none").ok
    /\ fail[p] # "node"

\* the edges of field f that start (i = 1) or end (i = 2) at node n are
\* the same before and after the step
SameEdgesAt(f, i, n) ==
    \A k \in (DOMAIN graph[f]) \cup (DOMAIN graph'[f]) :
        k[i] = n => Cnt(graph'[f], k) = Cnt(graph[f], k)

\* what a re-upsert of the note at p leaves alone, the incoming Folder
\* CONTAINS edge aside: the Note node itself, the edges between folders, the
\* note's edges to entities, and every edge of a note the run does not
\* upsert; the attributes are those of the file
UpsertFrame(p) ==
    /\ Cnt(graph'.notes, IdxNote(p)) = Cnt(graph.notes, IdxNote(p))
    /\ NotesAt(graph', p) = NotesAt(graph, p)
    /\ graph'.props[IdxNote(p)] = IdxProps(p, fs[p])
    /\ graph'.contains_folder = graph.contains_folder
    /\ SameEdgesAt("contains_entity", 1, IdxNote(p))
    /\ \A q \in NotePaths :
          ~Upserted(q, last'.fail)
          => /\ SameEdgesAt("contains_note", 2, IdxNote(q))
             /\ \A f \in EdgeFields : SameEdgesAt(f, 1, IdxNote(q))

\* an index run re-upserts the note at p, which is in the store already
ReUpsert(p) ==
    /\ last'.op = "index"
    /\ Cnt(graph.notes, IdxNote(p)) > 0
    /\ Upserted(p, last'.fail)

\* C30: re-upserting a note that already exists updates its attributes in
\* place and keeps the node: no second Note node is created, and every edge
\* that is not one of the note's outgoing vocabulary edges stays as it was,
\* the incoming Folder CONTAINS edge included.
C30_UpsertInPlace ==
    [][\A p \in NotePaths :
          ReUpsert(p) => /\ UpsertFrame(p)
                         /\ SameEdgesAt("contains_note", 2, IdxNote(p))]_vars

\* C30, amended: re-upserting a note that already exists updates its
\* attributes in place and keeps the node: no second Note node is created,
\* and every edge that is not one of the note's outgoing vocabulary edges
\* stays as it was, except that the incoming Folder CONTAINS edge may be
\* added when the note does not have it yet; one it has is kept as it is.
C30_UpsertKeepsEdges ==
    [][\A p \in NotePaths :
          ReUpsert(p)
          => /\ UpsertFrame(p)
             /\ \A k \in (DOMAIN graph.contains_note)
                           \cup (DOMAIN graph'.contains_note) :
                   k[2] = IdxNote(p)
                   => IF Cnt(graph.contains_note, k) > 0
                      THEN Cnt(graph'.contains_note, k)
                              = Cnt(graph.contains_note, k)
                      ELSE /\ k[1] = Parent(p)
                           /\ Cnt(graph'.contains_note, k) = 1]_vars

\* a.md was indexed with tags {a, b}, rewritten with tags {b, c} and
\* indexed again: one node, the new attributes, one CONTAINS edge
C30_Witness ==
    /\ last.op = "index"
    /\ Cnt(graph.notes, IdxNote(FileA)) = 1
    /\ graph.props[IdxNote(FileA)] = IdxProps(FileA, ContentBC)
    /\ Cnt(graph.tagged_with, <<IdxNote(FileA), "a">>) = 1
    /\ Cnt(graph.contains_note, <<NotesDir, IdxNote(FileA)>>) = 1

\* ------------------------------------------------- claims C31 to C39
\* the store holds the file at p as both producers left it: the indexer's
\* Note and the watcher's Note both carry the body that is on disk
BothParsed(p) ==
    /\ ~IsAbsent(fs[p])
    /\ IdxNote(p) \in DOMAIN graph.props
    /\ KgNote(p) \in DOMAIN graph.props
    /\ graph.props[IdxNote(p)].content = fs[p].body
    /\ graph.props[KgNote(p)].content = fs[p].body

\* the link names the indexer derives: the targets of the internal links
\* and the texts of the external links
IndexerLinkNames(c) ==
    {<<x>> : x \in extract_internal_links(c)}
        \cup {<<x[2]>> : x \in extract_external_links(c)}

\* C31: the note parser is shared by both producers: for the same file the
\* full indexer and the watcher derive the same record, that is the same
\* tag set (the metadata tag field united with the inline #tags) and the
\* same link targets ([[target|display]] yields only target).
C31_SharedParser ==
    \A p \in NotePaths :
        BothParsed(p)
        => /\ graph.props[KgNote(p)].tags = extract_tags(fs[p])
           /\ graph.props[KgNote(p)].links = IndexerLinkNames(fs[p])

InFlight(p) ==
    \E i \in Threads : thr[i].src = p /\ thr[i].pc \in {"in_callback", "finally"}

C34_Restart ==
    last.op = "start" => (is_watching /\ observer = "running")

\* the file at p is one index_vault makes a Note of
IndexerTakes(p) == Visited(Parent(p)) /\ should_process_file(p)

\* an event for p gets past on_created / on_modified / on_deleted and
\* should_ignore
WatcherTakes(p) == Suffix(Name(p)) = ".md" /\ ~should_ignore(p)

\* C35: the full indexer and the watcher agree on which files are notes: a
\* file that index_vault has made a Note of is one whose events the watcher
\* processes, and a file that has a Note through the watcher is one that
\* index_vault indexes.
C35_SameFiles ==
    \A p \in Candidates :
        /\ Cnt(graph.notes, IdxNote(p)) > 0 => WatcherTakes(p)
        /\ Cnt(graph.notes, KgNote(p)) > 0 => IndexerTakes(p)

\* C36: delete_note is idempotent and a no-op on absent notes: a handled
\* deletion for a path that has no Note node leaves the graph unchanged,
\* and deleting the same path once more leaves the graph as the first
\* deletion left it.
C36_DeleteIdempotent ==
    [][(/\ last'.op = "dispatch"
        /\ last'.outcome = "deletion"
        /\ last'.clean)
       => /\ Cnt(graph.notes, KgNote(last'.path)) = 0 => graph' = graph
          /\ delete_note(graph', last'.path) = graph'
          /\ delete_note(delete_note(graph, last'.path), last'.path)
                = delete_note(graph, last'.path)]_vars

\* a deletion has been handled for a path that has no Note, on a store
\* that holds the Note of the other path
C36_Witness ==
    /\ last.op = "dispatch"
    /\ last.outcome = "deletion"
    /\ last.clean
    /\ Cnt(graph.notes, KgNote(last.path)) = 0
    /\ \E q \in NotePaths : q # last.path /\ Cnt(graph.notes, KgNote(q)) > 0

\* the files of a run that reach the store calls
Opened(fail) ==
    {p \in Encountered(fs) :
        should_process_file(p) /\ get_note_content(fs[p], fail[p]).ok}

\* C37: when index_vault returns, every file encountered in a visited
\* directory has been counted in exactly one of notes_processed,
\* notes_skipped and errors (the files written, the files not opened or not
\* readable, the files whose store calls failed), so their sum is the
\* number of files encountered; folders_processed is one plus the number
\* of sub-directories visited.
C37_StatsAccounting ==
    [][last'.op = "index" =>
          LET fail == last'.fail
              done == {p \in Opened(fail) : fail[p] = "none"}
              failed == {p \in Opened(fail) : fail[p] # "none"}
          IN /\ stats'.notes_processed = Cardinality(done)
             /\ stats'.errors = Cardinality(failed)
             /\ stats'.notes_skipped =
                    Cardinality(Encountered(fs) \ Opened(fail))
             /\ stats'.notes_processed + stats'.notes_skipped + stats'.errors
                    = Cardinality(Encountered(fs))
             /\ stats'.folders_processed = 1 + Cardinality(VisitedDirs)]_vars

\* a run that wrote a note, skipped a file and failed on another, over a
\* tree with a file below a pruned directory
C37_Witness ==
    /\ last.op = "index"
    /\ stats.notes_processed > 0
    /\ stats.notes_skipped > 0
    /\ stats.errors > 0
    /\ ~IsAbsent(fs[GitNote])
    /\ stats.folders_processed = 3

\* C38: the content hash stored on a Note is the digest of the raw bytes
\* from which the stored body was parsed, also when the file is rewritten
\* while it is being indexed: the hash and the content of one Note come
\* from one version of the file.
C38_HashMatchesContent ==
    \A p \in NotePaths :
        IdxNote(p) \in DOMAIN graph.props
        => \E c \in Contents :
              /\ graph.props[IdxNote(p)].hash = calculate_note_hash(c)
              /\ graph.props[IdxNote(p)].content = c.body

\* C39: in chat mode the conversation history keeps only the last 10
\* exchanges: once an exchange has been appended and the history trimmed,
\* it never holds more than 10 entries, and the entries kept are the most
\* recent ones, in order.
C39_HistoryBound ==
    (last.op = "chat" /\ last.outcome = "answer")
    => /\ Len(conversation_history) <= 10
       /\ \A i \in 1..Len(conversation_history) :
             conversation_history[i].user
                = exchanges - Len(conversation_history) + i

====
